---- MODULE Spec2Model ----
(***************************************************************************)
(* Model of the episode URL cache of thechosen-downloader                  *)
(* (src/src/thechosen_downloader/cache.py): the CacheEntry value, the      *)
(* in-memory Cache object (season, episodes), the cache file with the      *)
(* temporary file of the atomic save, and the operations load, save,       *)
(* add_episode, clear and get_all_episodes.                                *)
(*                                                                         *)
(* Python values that json touches carry their type as a tag, JSON values  *)
(* carry the JSON type, so that json.dump / json.load are conversions and  *)
(* not the identity.  CacheEntry attributes are plain integers and strings.*)
(***************************************************************************)
EXTENDS Integers, Sequences, FiniteSets, TLC

\* ------------------------------------------------------------------ bounds
MaxEpisode == 2
MaxHeap == 2

\* ------------------------------------------------------- values and entries
PyNone == [t |-> "NoneType"]
PyInt(n) == [t |-> "int", v |-> n]
PyStr(s) == [t |-> "str", v |-> s]

JNull == [t |-> "null"]
JNum(n) == [t |-> "number", v |-> n]
JStr(s) == [t |-> "string", v |-> s]

\* the season a caller tags the collection with (process_url_list: season=1)
Seasons == {1}

\* title, episode_url, m3u8_url, extracted_at of the entries callers build
Payloads ==
  { [title |-> "Ta", episode_url |-> "Ua", m3u8_url |-> "Ma", extracted_at |-> "Xa"],
    [title |-> "Tb", episode_url |-> "Ub", m3u8_url |-> "Mb", extracted_at |-> "Xb"] }

\* datetime.now().isoformat() as seen by one call
Clock == {"Xnow"}

\* CacheEntry.__init__: extracted_at or datetime.now().isoformat()
CacheEntry(episode_number, title, episode_url, m3u8_url, extracted_at, now) ==
  [episode_number |-> episode_number,
   title |-> title,
   episode_url |-> episode_url,
   m3u8_url |-> m3u8_url,
   extracted_at |-> IF extracted_at.t = "NoneType" \/ extracted_at.v = ""
                    THEN now ELSE extracted_at.v]

\* the entries handed to add_episode
Entries ==
  { CacheEntry(n, p.title, p.episode_url, p.m3u8_url, PyStr(p.extracted_at), "Xnow") :
      n \in 1..MaxEpisode, p \in Payloads }

\* CacheEntry.to_dict
to_dict(ep) ==
  [episode_number |-> PyInt(ep.episode_number),
   title |-> PyStr(ep.title),
   episode_url |-> PyStr(ep.episode_url),
   m3u8_url |-> PyStr(ep.m3u8_url),
   extracted_at |-> PyStr(ep.extracted_at)]

\* data[key] raises KeyError when the key is missing
RequiredKeys == {"episode_number", "title", "episode_url", "m3u8_url"}

from_dict_ok(d) == RequiredKeys \subseteq DOMAIN d

\* dict.get(key) with the default None
dict_get(d, key) == IF key \in DOMAIN d THEN d[key] ELSE PyNone

\* from_dict that does not pass extracted_at on
from_dict_no_extracted_at(d, now) ==
  CacheEntry(d["episode_number"].v, d["title"].v, d["episode_url"].v,
             d["m3u8_url"].v, PyNone, now)

\* CacheEntry.from_dict
from_dict(d, now) ==
  CacheEntry(d["episode_number"].v, d["title"].v, d["episode_url"].v,
             d["m3u8_url"].v, dict_get(d, "extracted_at"), now)

\* ------------------------------------------------------------------- json
json_encode(p) ==
  CASE p.t = "NoneType" -> JNull
    [] p.t = "int" -> JNum(p.v)
    [] p.t = "str" -> JStr(p.v)

json_decode(j) ==
  CASE j.t = "null" -> PyNone
    [] j.t = "number" -> PyInt(j.v)
    [] j.t = "string" -> PyStr(j.v)

\* json.dump of {'season': ..., 'episodes': [...]}
json_dump(data) ==
  [t |-> "object",
   m |-> [season |-> json_encode(data.season),
          episodes |-> [i \in 1..Len(data.episodes) |->
                          [k \in DOMAIN data.episodes[i] |->
                             json_encode(data.episodes[i][k])]]]]

\* json.load of a JSON object: scalars become Python values, arrays lists
json_load(j) ==
  [k \in DOMAIN j.m |->
     IF k = "episodes"
     THEN [i \in 1..Len(j.m[k]) |->
             [f \in DOMAIN j.m[k][i] |-> json_decode(j.m[k][i][f])]]
     ELSE json_decode(j.m[k])]

\* ------------------------------------------------------------ file contents
NoFile == [kind |-> "absent"]
EmptyFile == [kind |-> "empty"]
PartialFile == [kind |-> "partial"]
JsonFile(j) == [kind |-> "json", value |-> j]

\* files this program did not write: not JSON, unreadable, a JSON array,
\* two records with one episode_number, a record without title, records
\* in descending order under a null season
JEntry(n, p) ==
  [episode_number |-> JNum(n), title |-> JStr(p.title),
   episode_url |-> JStr(p.episode_url), m3u8_url |-> JStr(p.m3u8_url),
   extracted_at |-> JStr(p.extracted_at)]

PayloadA == CHOOSE p \in Payloads : p.title = "Ta"
PayloadB == CHOOSE p \in Payloads : p.title = "Tb"

ForeignFiles ==
  { [kind |-> "garbage"],
    [kind |-> "unreadable"],
    JsonFile([t |-> "array"]),
    JsonFile([t |-> "object",
              m |-> [season |-> JNum(1),
                     episodes |-> << JEntry(1, PayloadA), JEntry(1, PayloadB) >>]]),
    JsonFile([t |-> "object",
              m |-> [season |-> JNum(1),
                     episodes |-> << JEntry(1, PayloadA),
                                     [episode_number |-> JNum(2),
                                      episode_url |-> JStr("Ub"),
                                      m3u8_url |-> JStr("Mb")] >>]]),
    JsonFile([t |-> "object",
              m |-> [season |-> JNull,
                     episodes |-> << JEntry(2, PayloadB), JEntry(1, PayloadA) >>]]) }

\* ------------------------------------------------------------------ state
VARIABLES
  season,        \* Cache.season
  episodes,      \* Cache.episodes
  dir,           \* cache_file.parent exists
  file,          \* content of cache_file
  tmp,           \* the '.tmp_' file of the save in progress
  stray,         \* a '.tmp_' file of an earlier save is still in the directory
  pc,            \* position inside save, "idle" outside
  last,          \* the call in progress or last returned, with its result
  before,        \* season and episodes when that call started
  saveOld,       \* content of cache_file when the save in progress started
  failedStep,    \* the step of the save in progress that raised
  unlinkFailed,  \* the cleanup unlink of the save in progress raised
  saved,         \* what the last successful save wrote, while still on disk
  adds_only,     \* only add_episode has changed episodes since __init__
  seen,          \* what a reader of cache_file got during the save in progress
  refs,          \* the objects of a get_all_episodes caller (heap, lists)
  batch,         \* one run of Preprocessor.process_url_list
  sel,           \* one call of parse_episode_selection
  ext            \* one call of a URLExtractor method

vars == << season, episodes, dir, file, tmp, stray, pc, last, before,
           saveOld, failedStep, unlinkFailed, saved, adds_only, seen >>

\* the variables of the other components, which the Cache leaves alone
others == << refs, batch, sel, ext >>
allvars == << vars, others >>
Unused == [pc |-> "unused"]

mem == << season, episodes >>
disk == << dir, file, tmp, stray >>
saveHist == << saveOld, failedStep, unlinkFailed >>

Call(op, ret, arg) == [op |-> op, ret |-> ret, arg |-> arg]
Snapshot == [season |-> season, episodes |-> episodes]
NotSaved == [valid |-> FALSE]
NotSeen == [kind |-> "unread"]

\* Cache.__init__
CacheInit ==
  /\ season = PyNone
  /\ episodes = << >>
  /\ dir \in BOOLEAN
  /\ file = NoFile
  /\ tmp = NoFile
  /\ stray = FALSE
  /\ pc = "idle"
  /\ last = Call("__init__", "None", << >>)
  /\ before = [season |-> PyNone, episodes |-> << >>]
  /\ saveOld = NoFile
  /\ failedStep = "none"
  /\ unlinkFailed = FALSE
  /\ saved = NotSaved
  /\ adds_only = TRUE
  /\ seen = NotSeen

Init ==
  /\ CacheInit
  /\ refs = Unused
  /\ batch = Unused
  /\ sel = Unused
  /\ ext = Unused


\* --------------------------------------------------- in-memory operations
\* list.sort(key=lambda ep: ep.episode_number): stable, ascending
RECURSIVE list_sort(_)
sort_insert(s, e) ==
  LET k == Cardinality({i \in 1..Len(s) : s[i].episode_number <= e.episode_number})
  IN  SubSeq(s, 1, k) \o << e >> \o SubSeq(s, k + 1, Len(s))

list_sort(s) ==
  IF s = << >> THEN << >>
  ELSE sort_insert(list_sort(SubSeq(s, 1, Len(s) - 1)), s[Len(s)])

\* add_episode without the final sort
add_episode_unsorted(eps, entry) ==
  LET kept == SelectSeq(eps, LAMBDA ep : ep.episode_number # entry.episode_number)
  IN  Append(kept, entry)

\* add_episode without the removal of the entry of the same number
add_episode_append(eps, entry) == list_sort(Append(eps, entry))

\* the new value of self.episodes in Cache.add_episode
add_episode(eps, entry) ==
  LET kept == SelectSeq(eps, LAMBDA ep : ep.episode_number # entry.episode_number)
  IN  list_sort(Append(kept, entry))

\* Cache.get_all_episodes: self.episodes.copy()
get_all_episodes(eps) == [i \in 1..Len(eps) |-> eps[i]]

\* Cache.__init__ of a new object bound to the same cache_file
New ==
  /\ pc = "idle"
  /\ season' = PyNone
  /\ episodes' = << >>
  /\ last' = Call("__init__", "None", << >>)
  /\ before' = Snapshot
  /\ adds_only' = TRUE
  /\ UNCHANGED << disk, pc, saveHist, saved, seen >>
  /\ UNCHANGED others

\* cache.season = season, as Preprocessor.process_url_list does
SetSeason(s) ==
  /\ pc = "idle"
  /\ season' = PyInt(s)
  /\ last' = Call("set_season", "None", << >>)
  /\ before' = Snapshot
  /\ UNCHANGED << episodes, disk, pc, saveHist, saved, adds_only, seen >>
  /\ UNCHANGED others

\* Cache.add_episode
AddEpisode(entry) ==
  /\ pc = "idle"
  /\ episodes' = add_episode(episodes, entry)
  /\ last' = Call("add_episode", "None", << entry >>)
  /\ before' = Snapshot
  /\ UNCHANGED << season, disk, pc, saveHist, saved, adds_only, seen >>
  /\ UNCHANGED others

\* clear that also removes the cache file
Clear_removes_file ==
  /\ pc = "idle"
  /\ episodes' = << >>
  /\ season' = PyNone
  /\ file' = NoFile
  /\ last' = Call("clear", "None", << >>)
  /\ before' = Snapshot
  /\ UNCHANGED << dir, tmp, stray, pc, saveHist, saved, adds_only, seen >>
  /\ UNCHANGED others

\* Cache.clear
Clear ==
  /\ pc = "idle"
  /\ episodes' = << >>
  /\ season' = PyNone
  /\ last' = Call("clear", "None", << >>)
  /\ before' = Snapshot
  /\ UNCHANGED << disk, pc, saveHist, saved, adds_only, seen >>
  /\ UNCHANGED others

\* ------------------------------------------------------------------- load
\* load that keeps the object as it is when the file does not exist
load_keeps_on_missing(f, s, eps, now) ==
  IF f = NoFile
  THEN [ret |-> "True", season |-> s, episodes |-> eps]
  ELSE IF f.kind = "json" /\ f.value.t = "object"
  THEN LET data == json_load(f.value)
           recs == IF "episodes" \in DOMAIN data THEN data["episodes"] ELSE << >>
       IN  IF \A i \in 1..Len(recs) : from_dict_ok(recs[i])
           THEN [ret |-> "True",
                 season |-> dict_get(data, "season"),
                 episodes |-> [i \in 1..Len(recs) |-> from_dict(recs[i], now)]]
           ELSE [ret |-> "False",
                 season |-> dict_get(data, "season"),
                 episodes |-> eps]
  ELSE [ret |-> "False", season |-> s, episodes |-> eps]

\* Cache.load as a function of the file and the object: the result and the
\* object afterwards.  season is assigned before the records are converted,
\* and the except branch assigns nothing.
load(f, s, eps, now) ==
  IF f = NoFile
  THEN [ret |-> "True", season |-> PyNone, episodes |-> << >>]
  ELSE IF f.kind = "json" /\ f.value.t = "object"
  THEN LET data == json_load(f.value)
           recs == IF "episodes" \in DOMAIN data THEN data["episodes"] ELSE << >>
       IN  IF \A i \in 1..Len(recs) : from_dict_ok(recs[i])
           THEN [ret |-> "True",
                 season |-> dict_get(data, "season"),
                 episodes |-> [i \in 1..Len(recs) |-> from_dict(recs[i], now)]]
           ELSE [ret |-> "False",
                 season |-> dict_get(data, "season"),
                 episodes |-> eps]
  ELSE [ret |-> "False", season |-> s, episodes |-> eps]

Load(now) ==
  /\ pc = "idle"
  /\ LET r == load(file, season, episodes, now)
     IN  /\ season' = r.season
         /\ episodes' = r.episodes
         /\ last' = Call("load", r.ret, << >>)
  /\ before' = Snapshot
  /\ adds_only' = FALSE
  /\ UNCHANGED << disk, pc, saveHist, saved, seen >>
  /\ UNCHANGED others

\* ------------------------------------------------------------------- save
\* what save serializes: {'season': self.season, 'episodes': [to_dict ...]}
save_data(s, eps) ==
  [season |-> s, episodes |-> [i \in 1..Len(eps) |-> to_dict(eps[i])]]

\* the complete text json.dump writes for the object
Dump(s, eps) == JsonFile(json_dump(save_data(s, eps)))

\* save is entered: cache_file.parent.mkdir(parents=True, exist_ok=True),
\* which can only raise when the directory is not there yet
SaveMkdir ==
  /\ pc = "idle"
  /\ before' = Snapshot
  /\ saveOld' = file
  /\ \/ /\ dir' = TRUE
        /\ pc' = "mkstemp"
        /\ last' = Call("save", "pending", << >>)
        /\ UNCHANGED failedStep
     \/ /\ ~dir
        /\ failedStep' = "mkdir"
        /\ pc' = "return"
        /\ last' = Call("save", "False", << >>)
        /\ UNCHANGED dir
  /\ UNCHANGED << mem, file, tmp, stray, unlinkFailed, saved, adds_only, seen >>
  /\ UNCHANGED others

\* tempfile.mkstemp(dir=parent, prefix='.tmp_', suffix='.json')
SaveMkstemp ==
  /\ pc = "mkstemp"
  /\ \/ /\ tmp' = EmptyFile
        /\ pc' = "write"
        /\ UNCHANGED << last, failedStep >>
     \/ /\ failedStep' = "mkstemp"
        /\ pc' = "return"
        /\ last' = Call("save", "False", << >>)
        /\ UNCHANGED tmp
  /\ UNCHANGED << mem, dir, file, stray, before, saveOld, unlinkFailed,
                  saved, adds_only, seen >>
  /\ UNCHANGED others

\* json.dump straight into cache_file instead of the temporary file
SaveWrite_in_place ==
  /\ pc = "write"
  /\ \/ /\ tmp = EmptyFile
        /\ tmp' = PartialFile
        /\ file' = PartialFile
        /\ UNCHANGED << pc, failedStep >>
     \/ /\ tmp' = Dump(season, episodes)
        /\ file' = Dump(season, episodes)
        /\ pc' = "replace"
        /\ UNCHANGED failedStep
     \/ /\ failedStep' = "write"
        /\ pc' = "cleanup"
        /\ UNCHANGED << tmp, file >>
  /\ UNCHANGED << mem, dir, stray, last, before, saveOld,
                  unlinkFailed, saved, adds_only, seen >>
  /\ UNCHANGED others

\* with os.fdopen(temp_fd, 'w') as f: json.dump(data, f, ...): the text
\* reaches the temporary file in pieces and is complete when f is closed;
\* serialization or a write can raise at any point before that
SaveWrite ==
  /\ pc = "write"
  /\ \/ /\ tmp = EmptyFile
        /\ tmp' = PartialFile
        /\ UNCHANGED << pc, failedStep >>
     \/ /\ tmp' = Dump(season, episodes)
        /\ pc' = "replace"
        /\ UNCHANGED failedStep
     \/ /\ failedStep' = "write"
        /\ pc' = "cleanup"
        /\ UNCHANGED tmp
  /\ UNCHANGED << mem, dir, file, stray, last, before, saveOld,
                  unlinkFailed, saved, adds_only, seen >>
  /\ UNCHANGED others

\* a copy onto cache_file instead of the rename
SaveReplace_copy ==
  /\ pc = "replace"
  /\ \/ /\ file' = tmp
        /\ saved' = [valid |-> TRUE, season |-> season, episodes |-> episodes]
        /\ pc' = "return"
        /\ last' = Call("save", "True", << >>)
        /\ UNCHANGED << failedStep, tmp >>
     \/ /\ failedStep' = "replace"
        /\ pc' = "cleanup"
        /\ UNCHANGED << file, tmp, saved, last >>
  /\ UNCHANGED << mem, dir, stray, before, saveOld, unlinkFailed,
                  adds_only, seen >>
  /\ UNCHANGED others

\* os.replace(temp_path, self.cache_file), then return True
SaveReplace ==
  /\ pc = "replace"
  /\ \/ /\ file' = tmp
        /\ tmp' = NoFile
        /\ saved' = [valid |-> TRUE, season |-> season, episodes |-> episodes]
        /\ pc' = "return"
        /\ last' = Call("save", "True", << >>)
        /\ UNCHANGED failedStep
     \/ /\ failedStep' = "replace"
        /\ pc' = "cleanup"
        /\ UNCHANGED << file, tmp, saved, last >>
  /\ UNCHANGED << mem, dir, stray, before, saveOld, unlinkFailed,
                  adds_only, seen >>
  /\ UNCHANGED others

\* a cleanup that unlinks cache_file instead of temp_path
SaveCleanup_unlinks_target ==
  /\ pc = "cleanup"
  /\ file' = NoFile
  /\ pc' = "return"
  /\ last' = Call("save", "False", << >>)
  /\ UNCHANGED << mem, dir, tmp, stray, before, saveOld, failedStep,
                  unlinkFailed, saved, adds_only, seen >>
  /\ UNCHANGED others

\* except Exception: try os.unlink(temp_path) except OSError: pass; raise,
\* and the outer except returns False
SaveCleanup ==
  /\ pc = "cleanup"
  /\ \/ /\ tmp' = NoFile
        /\ UNCHANGED unlinkFailed
     \/ /\ unlinkFailed' = TRUE
        /\ UNCHANGED tmp
  /\ pc' = "return"
  /\ last' = Call("save", "False", << >>)
  /\ UNCHANGED << mem, dir, file, stray, before, saveOld, failedStep,
                  saved, adds_only, seen >>
  /\ UNCHANGED others

\* save returns to its caller; a temporary file it could not remove stays
\* in the directory
SaveReturn ==
  /\ pc = "return"
  /\ pc' = "idle"
  /\ tmp' = NoFile
  /\ stray' = (stray \/ tmp # NoFile)
  /\ saveOld' = NoFile
  /\ failedStep' = "none"
  /\ unlinkFailed' = FALSE
  /\ seen' = NotSeen
  /\ UNCHANGED << mem, dir, file, last, before, saved, adds_only >>
  /\ UNCHANGED others

\* ------------------------------------------------------------ environment
\* the cache file is replaced or removed by something other than this
\* object, while no save of this object is in progress
External(f) ==
  /\ pc = "idle"
  /\ f # file
  /\ file' = f
  /\ dir' = (dir \/ f # NoFile)
  /\ saved' = NotSaved
  /\ last' = Call("external", "None", << >>)
  /\ before' = Snapshot
  /\ UNCHANGED << mem, tmp, stray, pc, saveHist, adds_only, seen >>
  /\ UNCHANGED others

\* a reader opens and reads cache_file while save is in progress
ReaderOpen ==
  /\ pc # "idle"
  /\ seen' = file
  /\ UNCHANGED << mem, disk, pc, last, before, saveHist, saved, adds_only >>
  /\ UNCHANGED others

Next ==
  \/ New
  \/ \E s \in Seasons : SetSeason(s)
  \/ \E e \in Entries : AddEpisode(e)
  \/ Clear
  \/ \E now \in Clock : Load(now)
  \/ SaveMkdir
  \/ SaveMkstemp
  \/ SaveWrite
  \/ SaveReplace
  \/ SaveCleanup
  \/ SaveReturn
  \/ \E f \in ForeignFiles \cup {NoFile} : External(f)
  \/ ReaderOpen

Spec == Init /\ [][Next]_allvars

\* ------------------------------------------------------------ properties
Range(s) == {s[i] : i \in 1..Len(s)}
Numbered(s, n) == SelectSeq(s, LAMBDA ep : ep.episode_number = n)
Count(s, x) == Cardinality({i \in 1..Len(s) : s[i] = x})
StrictlyAscending(s) ==
  \A i \in 1..Len(s) - 1 : s[i].episode_number < s[i + 1].episode_number
Fresh == [season |-> PyNone, episodes |-> << >>]

\* C1: after any sequence of add_episode calls on a new Cache, in any order
\* of episode_number and with repeats, the list get_all_episodes() returns
\* is strictly ascending by episode_number.
C1_SortInvariant ==
  adds_only => StrictlyAscending(get_all_episodes(episodes))

\* add_episode has just put an entry in front of one added earlier
C1_Witness ==
  /\ adds_only
  /\ last.op = "add_episode"
  /\ Len(before.episodes) >= 1
  /\ last.arg[1].episode_number < before.episodes[1].episode_number
  /\ Len(get_all_episodes(episodes)) = Len(before.episodes) + 1

\* C2: add_episode(e1) followed by add_episode(e2) with the same
\* episode_number leaves exactly one entry of that number, equal to e2 in
\* every field, and every entry the store held before e1 under another
\* number is still there, unchanged.
C2_Upsert ==
  [][ (/\ last.op = "add_episode"
       /\ last'.op = "add_episode"
       /\ last.arg[1].episode_number = last'.arg[1].episode_number)
      => LET e2 == last'.arg[1]
             n == e2.episode_number
         IN  /\ Numbered(episodes', n) = << e2 >>
             /\ \A x \in Range(before.episodes) \cup Range(episodes') :
                  x.episode_number # n
                    => Count(episodes', x) = Count(before.episodes, x) ]_vars

\* the last add_episode replaced an entry of its number with other fields,
\* next to an entry of another number
C2_Witness ==
  /\ last.op = "add_episode"
  /\ Numbered(before.episodes, last.arg[1].episode_number) # << >>
  /\ Numbered(before.episodes, last.arg[1].episode_number) # << last.arg[1] >>
  /\ Numbered(episodes, last.arg[1].episode_number) = << last.arg[1] >>
  /\ Len(episodes) >= 2

\* C3: in every reachable state of a Cache, also after a load() of an
\* existing parseable cache file, no two entries of episodes share an
\* episode_number.
C3_UniqueNumbers ==
  \A i, j \in 1..Len(episodes) :
    i # j => episodes[i].episode_number # episodes[j].episode_number

\* C4: after a successful save(), load() on a new Cache bound to the same
\* file returns True and yields the saved season and the saved entries,
\* field for field and in the same order.
C4_RoundTrip ==
  (pc = "idle" /\ last.op = "load" /\ before = Fresh /\ saved.valid)
    => /\ last.ret = "True"
       /\ season = saved.season
       /\ episodes = saved.episodes

\* a new Cache has loaded a saved file with a season and two entries
C4_Witness ==
  /\ pc = "idle"
  /\ last.op = "load"
  /\ before = Fresh
  /\ saved.valid
  /\ saved.season # PyNone
  /\ Len(saved.episodes) >= 2
  /\ episodes = saved.episodes

\* C5: when a step of save() raises (mkdir, temporary-file creation,
\* serialization or write, the final replace), save() returns False and
\* cache_file holds exactly what it held when save() was called, and is
\* still absent if it was absent.
C5_FailedSaveKeepsTarget ==
  (pc = "return" /\ failedStep # "none")
    => (last.ret = "False" /\ file = saveOld)

\* save is returning after its replace raised, over a file of other content
C5_Witness ==
  /\ pc = "return"
  /\ failedStep = "replace"
  /\ last.ret = "False"
  /\ file.kind = "json"
  /\ file # Dump(season, episodes)

C7_ReaderSeesSnapshot ==
  (pc # "idle" /\ seen # NotSeen)
    => seen \in {saveOld, Dump(season, episodes)}

\* a reader got the previous snapshot while the temporary file was partly
\* written
C7_Witness ==
  /\ pc = "write"
  /\ tmp = PartialFile
  /\ seen # NotSeen
  /\ seen = saveOld
  /\ seen.kind = "json"
  /\ seen # Dump(season, episodes)

C9_FailedLoadResets ==
  (pc = "idle" /\ last.op = "load" /\ last.ret = "False")
    => (season = PyNone /\ episodes = << >>)

\* C10: add_episode and clear leave the directory, cache_file and the
\* temporary files as they are; the content of cache_file changes only in
\* the replace of a save() (or by a writer other than this object).
C10_MemoryOnly ==
  [][ /\ last'.op \in {"add_episode", "clear"} => disk' = disk
      /\ file' # file => (pc = "replace" \/ last'.op = "external") ]_vars

\* add_episode has run after a successful save and the file still holds
\* the saved snapshot, which differs from the object
C10_Witness ==
  /\ last.op = "add_episode"
  /\ saved.valid
  /\ file = Dump(saved.season, saved.episodes)
  /\ episodes # saved.episodes

\* ---------------------------------------------------------------- queries
\* Cache.get_episode: the first entry of the number, None when there is none
get_episode(eps, episode_number) ==
  LET hits == SelectSeq(eps, LAMBDA ep : ep.episode_number = episode_number)
  IN  IF hits = << >> THEN << >> ELSE << hits[1] >>

\* Cache.get_episodes_in_range: [ep for ep in self.episodes if start <= n <= end]
get_episodes_in_range(eps, start, end) ==
  SelectSeq(eps, LAMBDA ep : start <= ep.episode_number /\ ep.episode_number <= end)

\* the start and end values tried, below and above every stored number
RangeArgs == 0..(MaxEpisode + 1)

Ascending(s) ==
  \A i \in 1..Len(s) - 1 : s[i].episode_number <= s[i + 1].episode_number

\* C11: for any store and any start and end, get_episodes_in_range returns
\* exactly the entries whose episode_number lies in start..end, in ascending
\* order of episode_number, and the empty list when none does (start > end
\* included).
C11_RangeQuery ==
  \A start, end \in RangeArgs :
    LET r == get_episodes_in_range(episodes, start, end)
    IN  /\ \A x \in Range(episodes) \cup Range(r) :
             Count(r, x) = IF start <= x.episode_number /\ x.episode_number <= end
                           THEN Count(episodes, x) ELSE 0
        /\ Ascending(r)
        /\ (start > end => r = << >>)

\* ------------------------------------------- get_all_episodes and its caller
\* CacheEntry objects live in a heap and lists hold references to them:
\* refs.heap[r] is the object r, refs.list is Cache.episodes, refs.got the
\* list a caller received from get_all_episodes.
Deref(heap, list) == [i \in 1..Len(list) |-> heap[list[i]]]

\* what get_all_episodes, get_episode and save read: the entries in order
StoreView == Deref(refs.heap, refs.list)

\* add_episode on references: the sort key is read through the reference
ref_add_episode(heap, list, r) ==
  LET boxed == [i \in 1..Len(list) |->
                  [ref |-> list[i], episode_number |-> heap[list[i]].episode_number]]
      res == add_episode(boxed, [ref |-> r, episode_number |-> heap[r].episode_number])
  IN  [i \in 1..Len(res) |-> res[i].ref]

Refs(heap, list, got, op) == [heap |-> heap, list |-> list, got |-> got, op |-> op]

CopyInit ==
  /\ CacheInit
  /\ refs = Refs(<< >>, << >>, << >>, "__init__")
  /\ batch = Unused
  /\ sel = Unused
  /\ ext = Unused

\* a caller builds a CacheEntry and hands it to add_episode
CopyAddEpisode(entry) ==
  /\ Len(refs.heap) < MaxHeap
  /\ LET heap == Append(refs.heap, entry)
     IN  refs' = Refs(heap, ref_add_episode(heap, refs.list, Len(heap)),
                      refs.got, "add_episode")
  /\ UNCHANGED << vars, batch, sel, ext >>

\* got = cache.get_all_episodes()
CopyGetAll ==
  /\ refs' = Refs(refs.heap, refs.list, get_all_episodes(refs.list), "get_all_episodes")
  /\ UNCHANGED << vars, batch, sel, ext >>

\* got.append(got[i])
CopyCallerAppends(i) ==
  /\ Len(refs.got) <= Len(refs.list)
  /\ refs' = Refs(refs.heap, refs.list, Append(refs.got, refs.got[i]), "caller_list")
  /\ UNCHANGED << vars, batch, sel, ext >>

\* del got[i]
CopyCallerRemoves(i) ==
  /\ refs' = Refs(refs.heap, refs.list,
                  SubSeq(refs.got, 1, i - 1) \o SubSeq(refs.got, i + 1, Len(refs.got)),
                  "caller_list")
  /\ UNCHANGED << vars, batch, sel, ext >>

\* got.reverse()
CopyCallerReverses ==
  /\ Len(refs.got) >= 2
  /\ refs' = Refs(refs.heap, refs.list,
                  [i \in 1..Len(refs.got) |-> refs.got[Len(refs.got) + 1 - i]],
                  "caller_list")
  /\ UNCHANGED << vars, batch, sel, ext >>

\* got[i].title = 'Tx'
CopyCallerSetsTitle(i) ==
  /\ refs' = Refs([refs.heap EXCEPT ![refs.got[i]].title = "Tx"],
                  refs.list, refs.got, "caller_field")
  /\ UNCHANGED << vars, batch, sel, ext >>

CopyNext ==
  \/ \E e \in Entries : CopyAddEpisode(e)
  \/ CopyGetAll
  \/ \E i \in 1..Len(refs.got) : CopyCallerAppends(i)
  \/ \E i \in 1..Len(refs.got) : CopyCallerRemoves(i)
  \/ CopyCallerReverses
  \/ \E i \in 1..Len(refs.got) : CopyCallerSetsTitle(i)

CopySpec == CopyInit /\ [][CopyNext]_allvars

\* C12: nothing a caller does to the result of get_all_episodes(), to the
\* list or to a field of an entry in it, changes what the store shows
\* afterwards.
C12_DefensiveCopy ==
  [][ refs'.op \in {"caller_list", "caller_field"} => StoreView' = StoreView ]_allvars

\* ------------------------------------------------------------ URLExtractor
\* A URL as the extractor's tests see it: 'https://' or 'http://', a host
\* (id), the last path segment and the query string.
Url(scheme, id, name, query) == [scheme |-> scheme, id |-> id, file |-> name, query |-> query]

\* the empty string, as a URL and as a text
EmptyUrl == Url("", "", "", "")
EmptyText == << >>

UA == Url("https", "a", "hls.m3u8", "viewerToken=t")
UB == Url("https", "b", "hls.m3u8", "viewerToken=t")
UC == Url("http", "c", "hls.m3u8", "viewerToken=t")
UD == Url("https", "d", "hls.m3u8", "sig=s")
UM == Url("https", "m", "master.m3u8", "")
UP == Url("https", "p", "video", "")

\* 'hls.m3u8' in url and 'viewerToken=' in url
og_url_ok(url) == url.file = "hls.m3u8" /\ url.query \in {"viewerToken=", "viewerToken=t"}

\* r'https://[^"\s]+/hls\.m3u8\?viewerToken=[^"\s]+' matches in the token
m3u8_pattern(url) ==
  url.scheme = "https" /\ url.file = "hls.m3u8" /\ url.query = "viewerToken=t"

\* r'https://[^"\s]+/hls\.m3u8\?[^"\s]+' (extract_from_url)
page_pattern(url) == url.scheme = "https" /\ url.file = "hls.m3u8" /\ url.query # ""

\* '.m3u8' in request.url
is_m3u8_request(url) == url.file \in {"hls.m3u8", "master.m3u8"}

\* text is a sequence of one-character strings
Whitespace == {" "}
RECURSIVE lstrip(_)
lstrip(s) == IF s # << >> /\ s[1] \in Whitespace THEN lstrip(Tail(s)) ELSE s
RECURSIVE rstrip(_)
rstrip(s) ==
  IF s # << >> /\ s[Len(s)] \in Whitespace THEN rstrip(SubSeq(s, 1, Len(s) - 1)) ELSE s
strip(s) == rstrip(lstrip(s))

\* the elements of a document the extractor looks at
Meta(property, content) == [tag |-> "meta", property |-> property, content |-> content]
Title(string) == [tag |-> "title", string |-> string]
Script(string) == [tag |-> "script", string |-> string]
Anchor(href) == [tag |-> "a", href |-> href]

Nodes ==
  { Meta("og:url", c) : c \in {PyNone, PyStr(UA), PyStr(UC), PyStr(UP)} }
    \cup { Meta("og:title", PyStr(t)) : t \in { << >>, << "E", "2" >> } }
    \cup { Title(PyNone), Title(PyStr(<< " ", "E", "1", " " >>)) }
    \cup { Script(PyStr(<< UB >>)), Script(PyStr(<< UD >>)) }
    \cup { Anchor(UA) }

MaxNodes == 2

\* the URLs in the text of one element, and in the text of the document, in
\* the order re.findall meets them
node_tokens(n) ==
  CASE n.tag = "meta" -> IF n.property = "og:url" /\ n.content # PyNone
                           THEN << n.content.v >> ELSE << >>
    [] n.tag = "script" -> IF n.string # PyNone THEN n.string.v ELSE << >>
    [] n.tag = "a" -> << n.href >>
    [] OTHER -> << >>

RECURSIVE html_tokens(_)
html_tokens(doc) ==
  IF doc = << >> THEN << >> ELSE node_tokens(doc[1]) \o html_tokens(Tail(doc))

\* soup.find('meta', property=...): the first such element, or None
IsMeta(n, property) == n.tag = "meta" /\ n.property = property
find_meta(doc, property) ==
  LET hits == SelectSeq(doc, LAMBDA n : IsMeta(n, property))
  IN  IF hits = << >> THEN PyNone ELSE hits[1]

\* soup.find('title')
find_title(doc) ==
  LET hits == SelectSeq(doc, LAMBDA n : n.tag = "title")
  IN  IF hits = << >> THEN PyNone ELSE hits[1]

\* soup.find_all('script')
find_all_script(doc) == SelectSeq(doc, LAMBDA n : n.tag = "script")

\* og and og.get('content'): the element exists and its content is not ''
has_content(meta, empty) == meta # PyNone /\ meta.content # PyNone /\ meta.content.v # empty

RECURSIVE first_script_match(_)
first_script_match(scripts) ==
  IF scripts = << >> THEN PyNone
  ELSE LET matches == IF scripts[1].string # PyNone
                        THEN SelectSeq(scripts[1].string.v, m3u8_pattern) ELSE << >>
       IN  IF matches # << >> THEN PyStr(matches[1])
           ELSE first_script_match(Tail(scripts))

\* what a call gives back: the returned triple, or the exception it raised
Returned(m3u8_url, title, error) ==
  [raised |-> FALSE, m3u8_url |-> m3u8_url, title |-> title, error |-> error]
Raised(exc) == [raised |-> TRUE, exc |-> exc]

_extract_m3u8_url_text_first(doc) ==
  LET og_url == find_meta(doc, "og:url")
      matches == SelectSeq(html_tokens(doc), m3u8_pattern)
  IN  IF matches # << >> THEN PyStr(matches[1])
      ELSE IF has_content(og_url, EmptyUrl) /\ og_url_ok(og_url.content.v)
        THEN og_url.content
      ELSE first_script_match(find_all_script(doc))

_extract_m3u8_url(doc) ==
  LET og_url == find_meta(doc, "og:url")
      matches == SelectSeq(html_tokens(doc), m3u8_pattern)
  IN  IF has_content(og_url, EmptyUrl) /\ og_url_ok(og_url.content.v)
        THEN og_url.content
      ELSE IF matches # << >> THEN PyStr(matches[1])
      ELSE first_script_match(find_all_script(doc))

_extract_title(doc) ==
  LET og_title == find_meta(doc, "og:title")
      title_tag == find_title(doc)
  IN  IF has_content(og_title, EmptyText) THEN og_title.content
      ELSE IF title_tag # PyNone /\ title_tag.string # PyNone
        THEN PyStr(strip(title_tag.string.v))
      ELSE PyNone

NotFoundInHtml == PyStr("m3u8 URL not found in HTML")

extract_from_html_title_required(doc) ==
  LET m3u8_url == _extract_m3u8_url(doc)
      title == _extract_title(doc)
  IN  IF m3u8_url = PyNone \/ title = PyNone
        THEN Returned(PyNone, title, NotFoundInHtml)
        ELSE Returned(m3u8_url, title, PyNone)

extract_from_html(doc) ==
  LET m3u8_url == _extract_m3u8_url(doc)
      title == _extract_title(doc)
  IN  IF m3u8_url = PyNone
        THEN Returned(PyNone, title, NotFoundInHtml)
        ELSE Returned(m3u8_url, title, PyNone)

\* the file at file_path: absent, present but open/read raises, or readable
FileStates == {"missing", "unreadable", "readable"}

extract_from_file(fs, doc) ==
  IF fs = "missing" THEN Returned(PyNone, PyNone, PyStr("File not found: file_path"))
  ELSE IF fs = "unreadable" THEN Returned(PyNone, PyNone, PyStr("str(e)"))
  ELSE LET r == extract_from_html(doc)
       IN  IF r.raised THEN Returned(PyNone, PyNone, PyStr(r.exc)) ELSE r

\* One run of the headless browser: which call raises, the requests
\* capture_request saw up to page.content(), and the requests it saw after
\* the HTML was scanned (the listener stays registered until browser.close()).
Browser0 ==
  [start |-> "ok", launch |-> "ok", goto |-> "ok", requests |-> << >>,
   selector |-> "ok", content |-> "ok", title |-> "ok", late |-> << >>, close |-> "ok"]

Requests == { << >>, << UP, UM >>, << UP, UD, UM >> }
LateRequests == { << >>, << UM >> }

Browsers ==
  { [Browser0 EXCEPT !.start = "error"], [Browser0 EXCEPT !.launch = "error"],
    [Browser0 EXCEPT !.close = "error"] }
    \cup { [Browser0 EXCEPT !.goto = g, !.requests = r, !.close = c] :
             g \in {"timeout", "error"}, r \in Requests, c \in {"ok", "error"} }
    \cup { [Browser0 EXCEPT !.selector = "error", !.close = c] : c \in {"ok", "error"} }
    \cup { [Browser0 EXCEPT !.selector = w, !.content = k, !.title = t,
                             !.requests = r, !.late = l] :
             w \in {"ok", "timeout"}, k \in {"ok", "error"},
             t \in {"ok", "query_selector", "title"}, r \in Requests, l \in LateRequests }

\* m3u8_requests with a timeout treated as the end of the extraction
m3u8_requests_lost_on_timeout(b, doc) ==
  IF b.goto = "ok" /\ b.selector = "ok"
    THEN SelectSeq(b.requests, is_m3u8_request)
           \o (IF b.content = "ok" THEN SelectSeq(html_tokens(doc), page_pattern) ELSE << >>)
           \o SelectSeq(b.late, is_m3u8_request)
    ELSE << >>

\* the list m3u8_requests when browser.close() returns: what capture_request
\* appended, with the matches of the HTML scan extended at the time of the
\* scan; a page-load timeout skips the scan
m3u8_requests(b, doc) ==
  IF b.goto = "ok"
    THEN SelectSeq(b.requests, is_m3u8_request)
           \o (IF b.content = "ok" THEN SelectSeq(html_tokens(doc), page_pattern) ELSE << >>)
           \o SelectSeq(b.late, is_m3u8_request)
    ELSE SelectSeq(b.requests, is_m3u8_request)

extract_from_url(b, doc) ==
  LET og_title == find_meta(doc, "og:title")
      content == IF og_title = PyNone THEN PyNone ELSE og_title.content
      title_tag == find_title(doc)
      page_title == IF title_tag # PyNone /\ title_tag.string # PyNone
                      THEN PyStr(strip(title_tag.string.v)) ELSE PyStr(EmptyText)
      title == IF b.title = "query_selector" THEN PyNone
               ELSE IF b.title = "title" \/ has_content(og_title, EmptyText) THEN content
               ELSE page_title
      loaded == b.goto = "ok"
  IN  IF b.start = "error" THEN Returned(PyNone, PyNone, PyStr("str(e)"))
      ELSE IF b.launch = "error"
        THEN Returned(PyNone, PyNone, PyStr("Failed to launch browser: e"))
      ELSE IF b.close = "error" THEN Returned(PyNone, PyNone, PyStr("str(e)"))
      ELSE IF b.goto = "error" \/ (loaded /\ b.selector = "error")
        THEN Returned(PyNone, PyNone, PyStr("Error during page load: e"))
      ELSE IF m3u8_requests(b, doc) = << >>
        THEN Returned(PyNone, IF loaded THEN title ELSE PyNone,
                      PyStr("No m3u8 URL found in network requests or page content."))
      ELSE Returned(PyStr(m3u8_requests(b, doc)[1]), IF loaded THEN title ELSE PyNone, PyNone)

\* ext.doc is the document (the saved file, the page the site serves),
\* ext.fn the last call, ext.arg the file state or the browser run it met,
\* ext.res its result
Ext(doc, fn, arg, res) == [doc |-> doc, fn |-> fn, arg |-> arg, res |-> res]

ExtInit ==
  /\ CacheInit
  /\ refs = Unused
  /\ batch = Unused
  /\ sel = Unused
  /\ ext = Ext(<< >>, "none", "", PyNone)

\* the document gets one more element
ExtWrite(n) ==
  /\ Len(ext.doc) < MaxNodes
  /\ ext' = Ext(Append(ext.doc, n), "none", "", PyNone)
  /\ UNCHANGED << vars, refs, batch, sel >>

\* The extractor keeps nothing between calls (self.verbose only), so a second
\* call on the same document repeats the first: one call per document.
ExtFromHtml ==
  /\ ext.fn = "none"
  /\ ext' = Ext(ext.doc, "extract_from_html", "", extract_from_html(ext.doc))
  /\ UNCHANGED << vars, refs, batch, sel >>

ExtFromFile(fs) ==
  /\ ext.fn = "none"
  /\ ext' = Ext(ext.doc, "extract_from_file", fs, extract_from_file(fs, ext.doc))
  /\ UNCHANGED << vars, refs, batch, sel >>

ExtFromUrl(b) ==
  /\ ext.fn = "none"
  /\ ext' = Ext(ext.doc, "extract_from_url", b, extract_from_url(b, ext.doc))
  /\ UNCHANGED << vars, refs, batch, sel >>

ExtNext ==
  \/ \E n \in Nodes : ExtWrite(n)
  \/ ExtFromHtml
  \/ \E fs \in FileStates : ExtFromFile(fs)
  \/ \E b \in Browsers : ExtFromUrl(b)

ExtSpec == ExtInit /\ [][ExtNext]_allvars

\* the three strategies, each on its own
Strategy1(doc) ==
  LET og == find_meta(doc, "og:url")
  IN  IF og # PyNone /\ og.content # PyNone /\ og_url_ok(og.content.v)
        THEN og.content ELSE PyNone
Strategy2(doc) ==
  LET hits == SelectSeq(html_tokens(doc), m3u8_pattern)
  IN  IF hits = << >> THEN PyNone ELSE PyStr(hits[1])
Strategy3(doc) == first_script_match(find_all_script(doc))

\* C19: extract_from_html returns the og:url value when it holds both
\* 'hls.m3u8' and 'viewerToken=', whatever else the document holds; otherwise
\* the first pattern match of the document text; otherwise the first pattern
\* match in a script block; otherwise None.
C19_ManifestPrecedence ==
  ext.fn = "extract_from_html" =>
    ext.res.m3u8_url =
      IF Strategy1(ext.doc) # PyNone THEN Strategy1(ext.doc)
      ELSE IF Strategy2(ext.doc) # PyNone THEN Strategy2(ext.doc)
      ELSE Strategy3(ext.doc)

\* the og:url value won over a different manifest URL that comes first in
\* the document text
C19_Witness ==
  /\ ext.fn = "extract_from_html"
  /\ Strategy1(ext.doc) # PyNone
  /\ Strategy2(ext.doc) # PyNone
  /\ Strategy2(ext.doc) # Strategy1(ext.doc)
  /\ ext.res.m3u8_url = Strategy1(ext.doc)

Parsed == ext.fn = "extract_from_html" \/ (ext.fn = "extract_from_file" /\ ext.arg = "readable")

Digits == << "0", "1", "2", "3", "4", "5", "6", "7", "8", "9" >>
DigitValue(c) == (CHOOSE k \in 1..10 : Digits[k] = c) - 1

\* int() of a run of digits
RECURSIVE int_digits(_)
int_digits(s) ==
  IF s = << >> THEN 0 ELSE 10 * int_digits(SubSeq(s, 1, Len(s) - 1)) + DigitValue(s[Len(s)])

\* str() of a non-negative int
RECURSIVE str_int(_)
str_int(n) == IF n < 10 THEN << Digits[n + 1] >> ELSE Append(str_int(n \div 10), Digits[(n % 10) + 1])

Lower == [c \in {"E", "P", "I", "S", "O", "D"} |->
            CASE c = "E" -> "e" [] c = "P" -> "p" [] c = "I" -> "i"
              [] c = "S" -> "s" [] c = "O" -> "o" [] c = "D" -> "d"]
lower(c) == IF c \in DOMAIN Lower THEN Lower[c] ELSE c

\* how many characters from position p on are in the class
RECURSIVE run(_, _, _)
run(s, p, class) == IF p <= Len(s) /\ s[p] \in class THEN 1 + run(s, p + 1, class) ELSE 0

DigitClass == {Digits[k] : k \in 1..10}

\* a pattern: a literal, then \s+ ("+"), \s* ("*") or nothing (""), then
\* (\d+), then either nothing or \s* and a closing literal; the two CJK
\* characters of the last pattern are written by their code points
Pattern(word, space, close) == [word |-> word, space |-> space, close |-> close]
patterns ==
  << Pattern(<< "e", "p", "i", "s", "o", "d", "e" >>, "+", << >>),
     Pattern(<< "e", "p" >>, "+", << >>),
     Pattern(<< "e" >>, "", << >>),
     Pattern(<< "U+7B2C" >>, "*", << "U+96C6" >>) >>

\* the literal at position p, without re.IGNORECASE
literal_at_same_case(s, p, word) ==
  /\ p + Len(word) - 1 <= Len(s)
  /\ \A k \in 1..Len(word) : s[p + k - 1] = word[k]

\* the literal at position p, ignoring case
literal_at(s, p, word) ==
  /\ p + Len(word) - 1 <= Len(s)
  /\ \A k \in 1..Len(word) : lower(s[p + k - 1]) = word[k]

\* the pattern matched at position p: group(1) as an int, or None
match_at(pat, s, p) ==
  LET q == p + Len(pat.word)
      spaces == IF pat.space = "" THEN 0 ELSE run(s, q, Whitespace)
      d == q + spaces
      digits == run(s, d, DigitClass)
      c == d + digits + run(s, d + digits, Whitespace)
  IN  IF /\ literal_at(s, p, pat.word)
         /\ (pat.space = "+" => spaces >= 1)
         /\ digits >= 1
         /\ (pat.close # << >> => literal_at(s, c, pat.close))
        THEN PyInt(int_digits(SubSeq(s, d, d + digits - 1)))
        ELSE PyNone

re_search(pat, s) ==
  LET hits == {p \in 1..Len(s) : match_at(pat, s, p) # PyNone}
  IN  IF hits = {} THEN PyNone
      ELSE match_at(pat, s, CHOOSE p \in hits : \A o \in hits : p <= o)

RECURSIVE first_pattern(_, _)
first_pattern(pats, title) ==
  IF pats = << >> THEN PyNone
  ELSE LET m == re_search(pats[1], title)
       IN  IF m # PyNone THEN m ELSE first_pattern(Tail(pats), title)

extract_episode_number(title) == first_pattern(patterns, title)

\* -------------------------------------------------------------- Preprocessor
\* the documents behind the sources of a list: a manifest URL and a title
\* with a number, a manifest URL and no title, a title and no manifest URL
SourceDocs ==
  << << Meta("og:url", PyStr(UA)), Meta("og:title", PyStr(<< "E", "2" >>)) >>,
     << Anchor(UB) >>,
     << Title(PyStr(<< " ", "E", "1", " " >>)) >> >>

\* a line of the list: Path(item).exists() tells a saved page from a URL
Sources == [path : 1..Len(SourceDocs), exists : BOOLEAN]
MaxUrls == 3

\* self.extractor.extract_from_file(item) / extract_from_url(item)
resolve(item) ==
  IF item.exists THEN extract_from_file("readable", SourceDocs[item.path])
  ELSE extract_from_url(Browser0, SourceDocs[item.path])

\* the tuple a call of the extractor returns
as_tuple(r) == << r.m3u8_url, r.title, r.error >>

\* the names process_url_list can read: its parameters and locals, the
\* globals of preprocessor.py
Names ==
  { "self", "url_list_file", "cache_file", "season", "urls", "cache", "i", "item",
    "m3u8_url", "title", "episode_number", "extracted_num", "entry", "e",
    "time", "Path", "List", "URLExtractor", "Cache", "CacheEntry", "Preprocessor" }

\* f"Episode {episode_number}"
default_title(n) == << "E", "p", "i", "s", "o", "d", "e", " " >> \o str_int(n)

Loop(exc, eps, events) == [exc |-> exc, episodes |-> eps, events |-> events]

\* if title: / title or ...
has_text(title) == title # PyNone /\ title.v # EmptyText

\* episode_number = i, replaced by extracted_num when that is truthy
number_or_position(i, extracted_num) ==
  IF extracted_num # PyNone /\ extracted_num.v # 0 THEN extracted_num.v ELSE i

episode_number_of(i, title) ==
  number_or_position(i, IF has_text(title) THEN extract_episode_number(title.v) ELSE PyNone)

\* entry = CacheEntry(episode_number, title or f"Episode {episode_number}", url, m3u8_url)
entry_of(episode_number, title, item, m3u8_url) ==
  CacheEntry(episode_number,
             IF has_text(title) THEN title.v ELSE default_title(episode_number),
             item, m3u8_url.v, PyNone, "Xnow")

\* cache.add_episode(entry), then time.sleep(self.rate_limit) if i < len(urls)
added(events, i, n, entry) ==
  IF i < n THEN events \o << [op |-> "add_episode", i |-> i, entry |-> entry], [op |-> "sleep"] >>
  ELSE Append(events, [op |-> "add_episode", i |-> i, entry |-> entry])

\* for i, item in enumerate(urls, 1): the iterations from i on; t is what
\* the extractor returned for urls[i], called the calls made so far
RECURSIVE for_each(_, _, _, _)
iteration(urls, i, t, eps, called) ==
  IF Len(t) # 2 THEN Loop("ValueError", eps, called)
  ELSE IF t[1] = PyNone THEN for_each(urls, i + 1, eps, called)
  ELSE IF "url" \notin Names THEN Loop("NameError", eps, called)
  ELSE for_each(urls, i + 1,
                add_episode(eps, entry_of(episode_number_of(i, t[2]), t[2], urls[i], t[1])),
                added(called, i, Len(urls),
                      entry_of(episode_number_of(i, t[2]), t[2], urls[i], t[1])))

for_each(urls, i, eps, events) ==
  IF i > Len(urls) THEN Loop("", eps, events)
  ELSE iteration(urls, i, as_tuple(resolve(urls[i])), eps,
                 Append(events, [op |-> IF urls[i].exists THEN "extract_from_file"
                                        ELSE "extract_from_url", i |-> i]))

\* what a call of process_url_list did: its return value, the calls it
\* made in order, the store it built and the entries a save wrote
Outcome(ret, events, eps, written) ==
  [ret |-> ret, events |-> events, episodes |-> eps, written |-> written]

process_url_list(urls, saveOk) ==
  IF urls = << >> THEN Outcome(FALSE, << >>, << >>, << >>)
  ELSE
    LET done == for_each(urls, 1, << >>, << >>)
    IN  IF done.exc # "" THEN Outcome(FALSE, done.events, done.episodes, << >>)
        ELSE Outcome(saveOk, Append(done.events, [op |-> "save"]), done.episodes,
                     IF saveOk THEN done.episodes ELSE << >>)

\* batch.urls is the list read from url_list_file, batch.saveOk whether
\* cache.save() can succeed, batch.out the outcome of the last call
Batch(urls, fn, saveOk, out) == [urls |-> urls, fn |-> fn, saveOk |-> saveOk, out |-> out]

BatchInit ==
  /\ CacheInit
  /\ refs = Unused
  /\ batch = Batch(<< >>, "none", TRUE, PyNone)
  /\ sel = Unused
  /\ ext = Unused

\* the list file gets one more line
BatchWriteLine(item) ==
  /\ Len(batch.urls) < MaxUrls
  /\ batch' = Batch(Append(batch.urls, item), "none", TRUE, PyNone)
  /\ UNCHANGED << vars, refs, sel, ext >>

BatchProcess(saveOk) ==
  /\ batch' = Batch(batch.urls, "process_url_list", saveOk,
                    process_url_list(batch.urls, saveOk))
  /\ UNCHANGED << vars, refs, sel, ext >>

BatchNext ==
  \/ \E item \in Sources : BatchWriteLine(item)
  \/ \E saveOk \in BOOLEAN : BatchProcess(saveOk)

BatchSpec == BatchInit /\ [][BatchNext]_allvars

Processed == batch.fn = "process_url_list"
Resolves(item) == resolve(item).m3u8_url # PyNone
IsCall(ev, ops, i) == ev.op \in ops /\ ev.i = i
Extractions == {"extract_from_file", "extract_from_url"}
Happened(ops, i) == \E k \in 1..Len(batch.out.events) : IsCall(batch.out.events[k], ops, i)

\* C13: a source that does not resolve is skipped: every source after it
\* is still handed to the extractor, every source that does resolve is
\* upserted, and when the save succeeds the store with the upserts is written.
C13_FailedSourceSkipped ==
  Processed =>
    \A i \in 1..Len(batch.urls) :
      ~Resolves(batch.urls[i]) =>
        /\ \A j \in (i + 1)..Len(batch.urls) : Happened(Extractions, j)
        /\ \A j \in 1..Len(batch.urls) :
             Resolves(batch.urls[j]) =>
               /\ Happened({"add_episode"}, j)
               /\ batch.saveOk =>
                    batch.out.written # << >> /\ batch.out.written = batch.out.episodes

\* C14: for a list that is not empty, cache.save() is called exactly once,
\* as the last step, and the call returns True exactly when the save succeeds.
C14_SaveOnce ==
  Processed /\ batch.urls # << >> =>
    LET events == batch.out.events
    IN  /\ Cardinality({k \in 1..Len(events) : events[k].op = "save"}) = 1
        /\ events[Len(events)].op = "save"
        /\ batch.out.ret <=> batch.saveOk

\* the entry C15 expects for the i-th source
Expected(i) ==
  LET r == resolve(batch.urls[i])
      has_title == r.title # PyNone /\ r.title.v # EmptyText
      parsed == IF has_title THEN extract_episode_number(r.title.v) ELSE PyNone
      n == IF parsed # PyNone /\ parsed.v # 0 THEN parsed.v ELSE i
  IN  [episode_number |-> n,
       title |-> IF has_title THEN r.title.v ELSE default_title(n),
       episode_url |-> batch.urls[i],
       m3u8_url |-> r.m3u8_url.v]

\* C15: every source that resolves is upserted under the number parsed from
\* its title, or its 1-based position when the title gives none, with the
\* manifest URL, the source as episode_url and the title or 'Episode {n}'.
C15_EpisodeNumbering ==
  Processed =>
    \A i \in 1..Len(batch.urls) :
      Resolves(batch.urls[i]) =>
        \E k \in 1..Len(batch.out.events) :
          /\ IsCall(batch.out.events[k], {"add_episode"}, i)
          /\ LET e == batch.out.events[k].entry
             IN  /\ e.episode_number = Expected(i).episode_number
                 /\ e.title = Expected(i).title
                 /\ e.episode_url = Expected(i).episode_url
                 /\ e.m3u8_url = Expected(i).m3u8_url

\* the extract_from_url calls and the pauses of a call, in order
Remote == SelectSeq(batch.out.events, LAMBDA ev : ev.op \in {"extract_from_url", "sleep"})

RECURSIVE split(_, _)
split(s, sep) ==
  LET cuts == {k \in 1..Len(s) : s[k] = sep}
  IN  IF cuts = {} THEN << s >>
      ELSE LET k == CHOOSE c \in cuts : \A o \in cuts : c <= o
           IN  << SubSeq(s, 1, k - 1) >> \o split(SubSeq(s, k + 1, Len(s)), sep)

ValueError == [t |-> "ValueError"]

\* int(s) for a text of digits, spaces and other characters: surrounding
\* whitespace is dropped, then at least one digit and nothing else
int(s) ==
  LET t == strip(s)
  IN  IF t # << >> /\ \A k \in 1..Len(t) : t[k] \in DigitClass
        THEN PyInt(int_digits(t)) ELSE ValueError

\* what one term of the selection gives: entries, or the exception that
\* leaves the loop body
Term(exc, eps) == [exc |-> exc, episodes |-> eps]

\* the range branch without its except clause
range_term_uncaught(part, eps) ==
  LET nums == [k \in 1..Len(split(part, "-")) |-> int(split(part, "-")[k])]
  IN  IF Len(nums) # 2 \/ \E k \in 1..Len(nums) : nums[k] = ValueError
        THEN Term("ValueError", << >>)
        ELSE Term("", get_episodes_in_range(eps, nums[1].v, nums[2].v))

\* start, end = map(int, part.split('-')) under except ValueError
range_term(part, eps) ==
  LET nums == [k \in 1..Len(split(part, "-")) |-> int(split(part, "-")[k])]
  IN  IF Len(nums) # 2 \/ \E k \in 1..Len(nums) : nums[k] = ValueError
        THEN Term("", << >>)
        ELSE Term("", get_episodes_in_range(eps, nums[1].v, nums[2].v))

\* ep_num = int(part) under except ValueError
single_term(part, eps) ==
  LET ep_num == int(part)
  IN  IF ep_num = ValueError THEN Term("", << >>)
      ELSE Term("", get_episode(eps, ep_num.v))

\* the body of the loop for one part of selection.split(',')
parse_part(raw, eps) ==
  LET part == strip(raw)
  IN  IF \E k \in 1..Len(part) : part[k] = "-"
        THEN range_term(part, eps) ELSE single_term(part, eps)

RECURSIVE parse_parts(_, _, _)
parse_parts(parts, eps, out) ==
  IF parts = << >> THEN [raised |-> FALSE, episodes |-> out]
  ELSE LET r == parse_part(parts[1], eps)
       IN  IF r.exc # "" THEN Raised(r.exc)
           ELSE parse_parts(Tail(parts), eps, out \o r.episodes)

parse_episode_selection(selection, eps) == parse_parts(split(selection, ","), eps, << >>)

\* the characters a selection is typed from, and its longest length
Keys == {"1", "2", "-", ",", " ", "a"}
MaxSelection == 5

\* the cache files batch_mode may find: one this program saved, and one
\* with the records in descending order
Saved(n) == CacheEntry(n, "Ta", "Ua", "Ma", PyStr("Xa"), "Xnow")
SelFiles ==
  { Dump(PyInt(1), << Saved(1), Saved(2) >>),
    JsonFile([t |-> "object",
              m |-> [season |-> JNull,
                     episodes |-> << JEntry(2, PayloadB), JEntry(1, PayloadA) >>]]) }

\* sel.store is cache.episodes after cache.load(), sel.selection the
\* --episodes argument, sel.res the result of the last call
Sel(at, store, selection, res) ==
  [pc |-> at, store |-> store, selection |-> selection, res |-> res]

SelInit ==
  /\ CacheInit
  /\ dir = TRUE
  /\ refs = Unused
  /\ batch = Unused
  /\ sel = Sel("start", << >>, << >>, PyNone)
  /\ ext = Unused

\* batch_mode: cache = Cache(cache_file); cache.load()
SelLoad(f) ==
  /\ sel.pc = "start"
  /\ load(f, PyNone, << >>, "Xnow").ret = "True"
  /\ sel' = Sel("loaded", load(f, PyNone, << >>, "Xnow").episodes, << >>, PyNone)
  /\ UNCHANGED << vars, refs, batch, ext >>

\* the argument gets one more character
SelType(c) ==
  /\ sel.pc # "start"
  /\ Len(sel.selection) < MaxSelection
  /\ sel' = Sel("loaded", sel.store, Append(sel.selection, c), PyNone)
  /\ UNCHANGED << vars, refs, batch, ext >>

SelParse ==
  /\ sel.pc # "start"
  /\ sel' = Sel("parsed", sel.store, sel.selection,
                parse_episode_selection(sel.selection, sel.store))
  /\ UNCHANGED << vars, refs, batch, ext >>

SelNext ==
  \/ \E f \in SelFiles : SelLoad(f)
  \/ \E c \in Keys : SelType(c)
  \/ SelParse

SelSpec == SelInit /\ [][SelNext]_allvars

\* the terms of the selection, read the way the two claims describe them
Terms == split(sel.selection, ",")
IsInt(t) == strip(t) # << >> /\ \A k \in 1..Len(strip(t)) : strip(t)[k] \in DigitClass
Number(t) == int_digits(strip(t))
Dash(t) == CHOOSE k \in 1..Len(t) : t[k] = "-"
IsRange(t) ==
  /\ Cardinality({k \in 1..Len(t) : t[k] = "-"}) = 1
  /\ IsInt(SubSeq(t, 1, Dash(t) - 1))
  /\ IsInt(SubSeq(t, Dash(t) + 1, Len(t)))
Malformed(t) == ~IsInt(t) /\ ~IsRange(t)

Within(store, t) ==
  SelectSeq(store, LAMBDA ep :
    /\ Number(SubSeq(t, 1, Dash(t) - 1)) <= ep.episode_number
    /\ ep.episode_number <= Number(SubSeq(t, Dash(t) + 1, Len(t))))
Numbered_N(store, t) ==
  LET hits == SelectSeq(store, LAMBDA ep : ep.episode_number = Number(t))
  IN  IF hits = << >> THEN << >> ELSE << hits[1] >>

RECURSIVE Flatten(_)
Flatten(ss) == IF ss = << >> THEN << >> ELSE ss[1] \o Flatten(Tail(ss))

\* what C17 says a term contributes
Claimed(t) ==
  IF IsRange(t) THEN list_sort(Within(sel.store, t))
  ELSE IF IsInt(t) THEN Numbered_N(sel.store, t)
  ELSE << >>

\* the cache of the examples, and the numbers of a result
Store5 == [n \in 1..5 |-> Saved(n)]
NumbersOf(r) == [i \in 1..Len(r.episodes) |-> r.episodes[i].episode_number]

\* C17: the result is the concatenation, term by term, of the entries with
\* A <= number <= B in ascending order for 'A-B' and of the entry numbered N,
\* if cached, for 'N', duplicates kept; on episodes 1..5, '2-4' gives
\* [2,3,4], '2,4' gives [2,4] and '99' gives [].
C17_SelectionSemantics ==
  /\ NumbersOf(parse_episode_selection(<< "2", "-", "4" >>, Store5)) = << 2, 3, 4 >>
  /\ NumbersOf(parse_episode_selection(<< "2", ",", "4" >>, Store5)) = << 2, 4 >>
  /\ NumbersOf(parse_episode_selection(<< "9", "9" >>, Store5)) = << >>
  /\ sel.pc = "parsed" =>
       /\ ~sel.res.raised
       /\ sel.res.episodes = Flatten([i \in 1..Len(Terms) |-> Claimed(Terms[i])])

\* what a well-formed term finds in the store, in the store's order
Found(t) == IF IsRange(t) THEN Within(sel.store, t) ELSE Numbered_N(sel.store, t)

\* C18: parse_episode_selection returns a list for every selection string;
\* a malformed term (not an integer, empty, not exactly two integers around
\* one '-') adds nothing, and every other term adds what it finds.
C18_MalformedSkipped ==
  sel.pc = "parsed" =>
    /\ ~sel.res.raised
    /\ sel.res.episodes =
         Flatten([i \in 1..Len(Terms) |->
                    IF Malformed(Terms[i]) THEN << >> ELSE Found(Terms[i])])

\* a malformed range came before a term that found an entry
C18_Witness ==
  /\ sel.pc = "parsed"
  /\ ~sel.res.raised
  /\ sel.res.episodes # << >>
  /\ \E i, j \in 1..Len(Terms) :
       /\ i < j
       /\ Malformed(Terms[i])
       /\ \E k \in 1..Len(Terms[i]) : Terms[i][k] = "-"
       /\ ~Malformed(Terms[j])
       /\ Found(Terms[j]) # << >>

\* ------------------------------------------- extract_from_url: what decides
FromUrl == ext.fn = "extract_from_url"
Recorded == SelectSeq(ext.arg.requests \o ext.arg.late, is_m3u8_request)
Scanned ==
  IF ext.arg.goto = "ok" /\ ext.arg.content = "ok"
    THEN SelectSeq(html_tokens(ext.doc), page_pattern) ELSE << >>
NoUrlFound == PyStr("No m3u8 URL found in network requests or page content.")

\* the run met nothing but timeouts: the browser started and closed, and
\* page.goto or page.wait_for_selector timed out
OnlyTimeouts ==
  /\ ext.arg.start = "ok" /\ ext.arg.launch = "ok" /\ ext.arg.close = "ok"
  /\ \/ ext.arg.goto = "timeout"
     \/ ext.arg.goto = "ok" /\ ext.arg.selector = "timeout"

\* C21: a page-load timeout or a video-element timeout does not end the
\* extraction: a '.m3u8' request seen before it is returned without error, and
\* the 'not found' error is returned only when nothing was collected.
C21_TimeoutsNotFatal ==
  FromUrl /\ OnlyTimeouts =>
    /\ SelectSeq(ext.arg.requests, is_m3u8_request) # << >> =>
         /\ ext.res.m3u8_url = PyStr(SelectSeq(ext.arg.requests, is_m3u8_request)[1])
         /\ ext.res.error = PyNone
    /\ ext.res.error # PyNone =>
         /\ ext.res.error = NoUrlFound
         /\ Recorded = << >>
         /\ Scanned = << >>

\* page.goto timed out after a '.m3u8' request, and that request came back
C21_Witness ==
  /\ FromUrl
  /\ OnlyTimeouts
  /\ ext.arg.goto = "timeout"
  /\ ext.arg.requests = << UP, UM >>
  /\ ext.res.m3u8_url = PyStr(UM)
  /\ ext.res.error = PyNone

\* the run reached the end of the try block and the browser closed
Completed ==
  /\ ext.arg.start = "ok" /\ ext.arg.launch = "ok" /\ ext.arg.close = "ok"
  /\ ext.arg.goto # "error"
  /\ ext.arg.goto = "ok" => ext.arg.selector # "error"

\* C22: when a request with '.m3u8' in its URL was recorded, the first one
\* recorded is the result, whatever the rendered HTML holds; the scan of the
\* HTML decides only when no such request was recorded.
C22_FirstRequestWins ==
  FromUrl /\ Completed =>
    ext.res.m3u8_url =
      IF Recorded # << >> THEN PyStr(Recorded[1])
      ELSE IF Scanned # << >> THEN PyStr(Scanned[1])
      ELSE PyNone

\* ------------------------------------------- extract_episode_number: titles
\* the pieces titles are put together from, and how many a title has
Words ==
  { << "E", "p", "i", "s", "o", "d", "e" >>, << "E", "p", " " >>, << "e" >>, << " " >>,
    << "1" >>, << "2" >>, << "U+7B2C" >>, << "U+96C6" >> }
MaxWords == 4

\* 'Season 1 Episode 7: Title', the CJK title for episode 3, 'Random Title'
Samples ==
  << << "S", "e", "a", "s", "o", "n", " ", "1", " ",
        "E", "p", "i", "s", "o", "d", "e", " ", "7", ":", " ", "T", "i", "t", "l", "e" >>,
     << "U+7B2C", " ", "3", " ", "U+96C6" >>,
     << "R", "a", "n", "d", "o", "m", " ", "T", "i", "t", "l", "e" >> >>
SampleTitle(i) ==
  [title |-> Samples[i], words |-> MaxWords, fn |-> "extract_episode_number",
   res |-> extract_episode_number(Samples[i])]

\* ext.title is the title handed to extract_episode_number, ext.words the
\* number of pieces it has, ext.res the result
Num(title, words, res) ==
  [title |-> title, words |-> words, fn |-> "extract_episode_number", res |-> res]

NumInit ==
  /\ CacheInit
  /\ dir = TRUE
  /\ refs = Unused
  /\ batch = Unused
  /\ sel = Unused
  /\ \/ ext = Num(<< >>, 0, extract_episode_number(<< >>))
     \/ \E i \in 1..Len(Samples) : ext = SampleTitle(i)

\* extract_episode_number on the title with one more piece
NumExtract(w) ==
  /\ ext.words < MaxWords
  /\ ext' = Num(ext.title \o w, ext.words + 1, extract_episode_number(ext.title \o w))
  /\ UNCHANGED << vars, refs, batch, sel >>

NumNext == \E w \in Words : NumExtract(w)

NumSpec == NumInit /\ [][NumNext]_allvars

\* The four patterns of C23, written out.  In title t at position p: the
\* word (any case), then sp whitespace characters, then n digits that are
\* not followed by a digit, then for the last pattern tail whitespace
\* characters and the closing character.
WordAt(t, p, w) == p + Len(w) - 1 <= Len(t) /\ \A i \in 1..Len(w) : lower(t[p + i - 1]) = w[i]
AllIn(t, from, n, class) == from + n - 1 <= Len(t) /\ \A k \in from..(from + n - 1) : t[k] \in class
Shapes ==
  << [word |-> << "e", "p", "i", "s", "o", "d", "e" >>, least |-> 1, most |-> 100, close |-> << >>],
     [word |-> << "e", "p" >>, least |-> 1, most |-> 100, close |-> << >>],
     [word |-> << "e" >>, least |-> 0, most |-> 0, close |-> << >>],
     [word |-> << "U+7B2C" >>, least |-> 0, most |-> 100, close |-> << "U+96C6" >>] >>
WordsAt(k, t) == { p \in 1..Len(t) : WordAt(t, p, Shapes[k].word) }
SpacesAt(k, t, q) ==
  { sp \in 0..(Len(t) - q + 1) :
      Shapes[k].least <= sp /\ sp <= Shapes[k].most /\ AllIn(t, q, sp, Whitespace) }
DigitsAt(t, d) ==
  { n \in 1..(Len(t) - d + 1) :
      AllIn(t, d, n, DigitClass) /\ ~(d + n <= Len(t) /\ t[d + n] \in DigitClass) }
ClosedAt(k, t, c) ==
  Shapes[k].close # << >> =>
    \E tail \in 0..(Len(t) - c + 1) :
      AllIn(t, c, tail, Whitespace) /\ WordAt(t, c + tail, Shapes[k].close)
Matches(k, t) ==
  UNION { UNION { { [p |-> p, sp |-> sp, n |-> n] :
                    n \in { m \in DigitsAt(t, p + Len(Shapes[k].word) + sp) :
                              ClosedAt(k, t, p + Len(Shapes[k].word) + sp + m) } } :
                  sp \in SpacesAt(k, t, p + Len(Shapes[k].word)) } :
          p \in WordsAt(k, t) }
Leftmost(k, t) == CHOOSE m \in Matches(k, t) : \A o \in Matches(k, t) : m.p <= o.p
Captured(k, t) ==
  LET m == Leftmost(k, t)
      d == m.p + Len(Shapes[k].word) + m.sp
  IN  int_digits(SubSeq(t, d, d + m.n - 1))
FirstInOrder(t) ==
  IF \A k \in 1..4 : Matches(k, t) = {} THEN PyNone
  ELSE PyInt(Captured(CHOOSE k \in 1..4 :
                        Matches(k, t) # {} /\ \A j \in 1..(k - 1) : Matches(j, t) = {}, t))

\* C23: the result is the integer captured by the first of 'Episode N',
\* 'Ep N', 'E<digits>' and the CJK form, in that order and in any letter
\* case, that matches anywhere in the title, and None when none matches;
\* the three titles of the example give 7, 3 and None.
C23_PatternOrder ==
  /\ ext.title = Samples[1] => ext.res = PyInt(7)
  /\ ext.title = Samples[2] => ext.res = PyInt(3)
  /\ ext.title = Samples[3] => ext.res = PyNone
  /\ ext.res = FirstInOrder(ext.title)

\* a title where 'Ep N' and 'E<digits>' both match with different numbers,
\* the later pattern matching further left
C23_Witness ==
  /\ Matches(2, ext.title) # {}
  /\ Matches(3, ext.title) # {}
  /\ Leftmost(3, ext.title).p < Leftmost(2, ext.title).p
  /\ Captured(2, ext.title) # Captured(3, ext.title)
  /\ ext.res = PyInt(Captured(2, ext.title))

\* ------------------------------------------- VideoDownloader._get_format_string
\* a yt-dlp format string, as the pieces it is written with
unbounded == << "bestvideo", "+bestaudio/best" >>
height_bounded(h) ==
  << "bestvideo", "[height<=" >> \o h \o << "]", "+bestaudio/best", "[height<=" >> \o h \o << "]" >>

\* the keys of quality_map
quality_map_keys ==
  { << "2", "1", "6", "0", "p" >>, << "1", "0", "8", "0", "p" >>, << "7", "2", "0", "p" >>,
    << "4", "8", "0", "p" >>, << "3", "6", "0", "p" >> }
quality_map == [q \in quality_map_keys |-> height_bounded(SubSeq(q, 1, Len(q) - 1))]

lower_str(s) == [i \in 1..Len(s) |-> lower(s[i])]

\* quality is None or a string
_get_format_string(quality) ==
  IF quality = PyNone \/ quality.v = << >> THEN unbounded
  ELSE IF lower_str(quality.v) \in DOMAIN quality_map THEN quality_map[lower_str(quality.v)]
  ELSE unbounded

\* the pieces --quality values are put together from, and how many of them
Heights ==
  { << "3", "6", "0" >>, << "4", "8", "0" >>, << "7", "2", "0" >>, << "1", "0", "8", "0" >>,
    << "1", "4", "4", "0" >>, << "2", "1", "6", "0" >> }
Pieces == Heights \cup { << "p" >>, << "P" >>, << "x" >> }
MaxPieces == 3

\* ext.quality is the argument, ext.pieces the number of pieces of the
\* string, ext.res the format string returned
Fmt(quality, pieces, res) ==
  [quality |-> quality, pieces |-> pieces, fn |-> "_get_format_string", res |-> res]

FmtInit ==
  /\ CacheInit
  /\ dir = TRUE
  /\ refs = Unused
  /\ batch = Unused
  /\ sel = Unused
  /\ \E q \in { PyNone, PyStr(<< >>) } : ext = Fmt(q, 0, _get_format_string(q))

\* _get_format_string on the string with one more piece
FmtCall(w) ==
  /\ ext.pieces < MaxPieces
  /\ LET q == PyStr((IF ext.quality = PyNone THEN << >> ELSE ext.quality.v) \o w)
     IN  ext' = Fmt(q, ext.pieces + 1, _get_format_string(q))
  /\ UNCHANGED << vars, refs, batch, sel >>

FmtNext == \E w \in Pieces : FmtCall(w)

FmtSpec == FmtInit /\ [][FmtNext]_allvars

\* the tags of C24 in any letter case: a height and 'p' or 'P'
IsTag(quality) ==
  /\ quality # PyNone
  /\ \E h \in Heights : quality.v \in { h \o << "p" >>, h \o << "P" >> }
TagHeight(quality) == SubSeq(quality.v, 1, Len(quality.v) - 1)

\* C24: a tag of {360p, 480p, 720p, 1080p, 1440p, 2160p} in any letter case
\* gives the selection bounded by the tag's height; None and every other
\* string give the unbounded selection.
C24_FormatString ==
  ext.res = IF IsTag(ext.quality) THEN height_bounded(TagHeight(ext.quality)) ELSE unbounded

\* the same with 1440p left out of the tags
C24_ExceptMissingKey ==
  (IsTag(ext.quality) /\ TagHeight(ext.quality) = << "1", "4", "4", "0" >>)
    \/ C24_FormatString

\* ------------------------------------------- multi_download_mode, batch_mode
\* One run of a download mode.  items are the sources (the selected episode
\* numbers in batch_mode), i the items the loop has been through, failed the
\* list of the same name, code the value returned; attempts and results
\* record each item handed to the loop body and whether it was downloaded;
\* loaded tells that the loop was entered.
Run(mode, pc_, items, i, failed, attempts, results, loaded, report, code) ==
  [mode |-> mode, pc |-> pc_, items |-> items, i |-> i, failed |-> failed,
   attempts |-> attempts, results |-> results, loaded |-> loaded, report |-> report, code |-> code]

MaxItems == 3
SourceNames == {"a", "b"}
EpisodeNumbers == {1, 2}
RECURSIVE ListsOf(_, _)
ListsOf(S, n) ==
  IF n = 0 THEN { << >> } ELSE ListsOf(S, n - 1) \cup { Append(l, x) : l \in ListsOf(S, n - 1), x \in S }

\* what happens to one source: how it is classified, what the extractor
\* returns, whether the automatic cache works, what download() returns
Attempts ==
  [kind : {"file", "page", "direct", "invalid"}, m3u8_url : {"url", "None"},
   cache : {"saved", "raised"}, download : BOOLEAN]

\* the body of the loop with an exception of the cache code not caught
multi_iteration_cache_uncaught(r, a) ==
  LET source == r.items[r.i + 1]
      url == IF a.kind = "direct" THEN "url" ELSE a.m3u8_url
      ok == a.kind # "invalid" /\ url = "url" /\ a.download
      tried == Append(r.attempts, source)
  IN  IF a.kind \in {"file", "page"} /\ url = "url" /\ a.cache = "raised"
        THEN Run(r.mode, "raised", r.items, r.i + 1, r.failed, tried, Append(r.results, FALSE),
                 r.loaded, r.report, r.code)
        ELSE Run(r.mode, r.pc, r.items, r.i + 1,
                 IF ok THEN r.failed ELSE Append(r.failed, source),
                 tried, Append(r.results, ok), r.loaded, r.report, r.code)

\* the body of the loop of multi_download_mode for the next source
multi_iteration(r, a) ==
  LET source == r.items[r.i + 1]
      url == IF a.kind = "direct" THEN "url" ELSE a.m3u8_url
      ok == a.kind # "invalid" /\ url = "url" /\ a.download
  IN  Run(r.mode, r.pc, r.items, r.i + 1,
          IF ok THEN r.failed ELSE Append(r.failed, source),
          Append(r.attempts, source), Append(r.results, ok), r.loaded, r.report, r.code)

\* the body of the loop of batch_mode for the next episode
batch_iteration(r, success) ==
  LET episode == r.items[r.i + 1]
  IN  Run(r.mode, r.pc, r.items, r.i + 1,
          IF success THEN r.failed ELSE Append(r.failed, episode),
          Append(r.attempts, episode), Append(r.results, success), r.loaded, r.report, r.code)

\* the summary and the return value of both modes
summary(r) ==
  Run(r.mode, "returned", r.items, r.i, r.failed, r.attempts, r.results, r.loaded,
      [successful |-> Len(r.items) - Len(r.failed), failed |-> Len(r.failed)],
      IF r.failed = << >> THEN PyInt(0) ELSE PyInt(1))

NoReport == [successful |-> 0, failed |-> 0]
NotStarted == Run("none", "start", << >>, 0, << >>, << >>, << >>, FALSE, NoReport, PyNone)

ModeInit ==
  /\ CacheInit
  /\ dir = TRUE
  /\ refs = Unused
  /\ batch = NotStarted
  /\ sel = Unused
  /\ ext = Unused

\* multi_download_mode(args) up to the loop
MultiStart(sources) ==
  /\ batch.pc = "start"
  /\ batch' = Run("multi", "loop", sources, 0, << >>, << >>, << >>, TRUE, NoReport, PyNone)
  /\ UNCHANGED << vars, refs, sel, ext >>

MultiIteration(a) ==
  /\ batch.pc = "loop" /\ batch.mode = "multi"
  /\ batch.i < Len(batch.items)
  /\ batch' = multi_iteration(batch, a)
  /\ UNCHANGED << vars, refs, sel, ext >>

\* batch_mode(args) up to the loop: no cache file, a cache that does not
\* load and an empty selection return at once
BatchModeStart(exists, loads, selected) ==
  /\ batch.pc = "start"
  /\ batch' =
       IF ~exists \/ ~loads
         THEN Run("batch", "returned", << >>, 0, << >>, << >>, << >>, FALSE, NoReport, PyInt(1))
       ELSE IF selected = << >>
         THEN Run("batch", "returned", << >>, 0, << >>, << >>, << >>, TRUE, NoReport, PyInt(0))
       ELSE Run("batch", "loop", selected, 0, << >>, << >>, << >>, TRUE, NoReport, PyNone)
  /\ UNCHANGED << vars, refs, sel, ext >>

BatchModeIteration(success) ==
  /\ batch.pc = "loop" /\ batch.mode = "batch"
  /\ batch.i < Len(batch.items)
  /\ batch' = batch_iteration(batch, success)
  /\ UNCHANGED << vars, refs, sel, ext >>

Summary ==
  /\ batch.pc = "loop"
  /\ batch.i = Len(batch.items)
  /\ batch' = summary(batch)
  /\ UNCHANGED << vars, refs, sel, ext >>

ModeNext ==
  \/ \E sources \in ListsOf(SourceNames, MaxItems) : MultiStart(sources)
  \/ \E a \in Attempts : MultiIteration(a)
  \/ \E exists \in BOOLEAN, loads \in BOOLEAN, selected \in ListsOf(EpisodeNumbers, MaxItems) :
       BatchModeStart(exists, loads, selected)
  \/ \E success \in BOOLEAN : BatchModeIteration(success)
  \/ Summary

ModeSpec == ModeInit /\ [][ModeNext]_allvars

\* the items among the first n that were not downloaded, in order
RECURSIVE NotDownloaded(_, _, _)
NotDownloaded(items, results, n) ==
  IF n = 0 THEN << >>
  ELSE IF results[n] THEN NotDownloaded(items, results, n - 1)
  ELSE Append(NotDownloaded(items, results, n - 1), items[n])

EveryItemOnce ==
  /\ batch.pc \in {"loop", "returned"}
  /\ batch.attempts = SubSeq(batch.items, 1, batch.i)
  /\ batch.failed = NotDownloaded(batch.items, batch.results, batch.i)
  /\ batch.pc = "returned" =>
       /\ batch.i = Len(batch.items)
       /\ batch.report.failed = Len(batch.failed)
       /\ batch.report.successful + batch.report.failed = Len(batch.items)

AutoTitles ==
  { PyNone, PyStr(<< "T" >>), PyStr(<< "E", "0" >>) }
    \cup { PyStr(<< "E" >> \o str_int(n)) : n \in 1..MaxEpisode }

\* source_url, m3u8_url and title of one call
AutoCalls ==
  { [source_url |-> p.episode_url, m3u8_url |-> p.m3u8_url, title |-> t] :
      p \in Payloads, t \in AutoTitles }

\* the steps of Cache.save that can raise
SaveFaults == {"none", "mkdir", "mkstemp", "replace"}

\* episode_number that keeps an extracted 0
auto_episode_number_keeps_zero(title) ==
  IF title = PyNone \/ title.v = << >> THEN 1
  ELSE LET extracted_num == extract_episode_number(title.v)
       IN  IF extracted_num # PyNone THEN extracted_num.v ELSE 1

\* episode_number = 1; if title: extracted_num = ...; if extracted_num: ...
auto_episode_number(title) ==
  IF title = PyNone \/ title.v = << >> THEN 1
  ELSE LET extracted_num == extract_episode_number(title.v)
       IN  IF extracted_num # PyNone /\ extracted_num.v # 0 THEN extracted_num.v ELSE 1

\* title or f"Episode {episode_number}"
auto_title(title, episode_number) ==
  IF title = PyNone \/ title.v = << >>
  THEN << "E", "p", "i", "s", "o", "d", "e", " " >> \o str_int(episode_number)
  ELSE title.v

auto_entry(call, now) ==
  CacheEntry(auto_episode_number(call.title),
             auto_title(call.title, auto_episode_number(call.title)),
             call.source_url, call.m3u8_url, PyNone, now)

\* Cache.save from its call to its return: the result, the directory, the
\* file and whether a temporary file is left behind
save(fault, unlinkOk, d, f, st, s, eps) ==
  CASE fault = "none" -> [ret |-> "True", dir |-> TRUE, file |-> Dump(s, eps), stray |-> st]
    [] fault = "mkdir" -> [ret |-> "False", dir |-> d, file |-> f, stray |-> st]
    [] fault = "mkstemp" -> [ret |-> "False", dir |-> TRUE, file |-> f, stray |-> st]
    [] fault = "replace" ->
         [ret |-> "False", dir |-> TRUE, file |-> f, stray |-> st \/ ~unlinkOk]

\* the call without cache.load(): the entry goes into an empty Cache
_save_to_auto_cache_without_load(call, now, fault, unlinkOk, d, f, st) ==
  LET entry == auto_entry(call, now)
      eps == add_episode(<< >>, entry)
      out == save(fault, unlinkOk, d, f, st, PyNone, eps)
  IN  [entry |-> entry, replaced |-> << >>, season |-> PyNone, episodes |-> eps, save |-> out]

\* cache = Cache(AUTO_CACHE_PATH); cache.load(); cache.add_episode(entry);
\* cache.save(): the entry, the entries it replaces, the
\* Cache object and the disk afterwards
_save_to_auto_cache(call, now, fault, unlinkOk, d, f, st) ==
  LET loaded == load(f, PyNone, << >>, now)
      entry == auto_entry(call, now)
      eps == add_episode(loaded.episodes, entry)
      out == save(fault, unlinkOk, d, f, st, loaded.season, eps)
  IN  [entry |-> entry, replaced |-> Numbered(loaded.episodes, entry.episode_number),
       season |-> loaded.season, episodes |-> eps, save |-> out]

AutoInit ==
  /\ CacheInit
  /\ dir = FALSE
  /\ refs = Unused
  /\ batch = Unused
  /\ sel = Unused
  /\ ext = Unused

AutoCache(call, now, fault, unlinkOk) ==
  /\ pc = "idle"
  /\ fault = "mkdir" => ~dir
  /\ \E r \in { _save_to_auto_cache(call, now, fault, unlinkOk, dir, file, stray) } :
     /\ season' = r.season
     /\ episodes' = r.episodes
     /\ dir' = r.save.dir
     /\ file' = r.save.file
     /\ stray' = r.save.stray
     /\ last' = Call("_save_to_auto_cache", "None", << r.entry, r.replaced, call.title >>)
     /\ failedStep' = fault
     /\ saved' = IF fault = "none"
                 THEN [valid |-> TRUE, season |-> r.season, episodes |-> r.episodes]
                 ELSE saved
  /\ before' = Fresh
  /\ adds_only' = FALSE
  /\ UNCHANGED << tmp, pc, saveOld, unlinkFailed, seen, refs, batch, sel, ext >>

\* os.unlink(temp_path) is reached only once the temporary file is there
UnlinkOutcomes(fault) == IF fault = "replace" THEN BOOLEAN ELSE {TRUE}

AutoNext ==
  \E call \in AutoCalls, now \in Clock, fault \in SaveFaults :
    \E unlinkOk \in UnlinkOutcomes(fault) : AutoCache(call, now, fault, unlinkOk)

AutoSpec == AutoInit /\ [][AutoNext]_allvars

\* the complete records of a cache file, and its season
FileRecords(f) ==
  IF f.kind = "json" /\ f.value.t = "object" /\ "episodes" \in DOMAIN f.value.m
  THEN SelectSeq(json_load(f.value)["episodes"], from_dict_ok)
  ELSE << >>
SeasonNull(f) == f.kind = "json" /\ f.value.t = "object" /\ f.value.m.season = JNull

\* records with the entry put in: the one of its number removed, the
\* others kept, ascending by number
Upserted(records, entry) ==
  LET kept == { r \in Range(records) : r.episode_number # PyInt(entry.episode_number) }
      all == kept \cup { to_dict(entry) }
  IN  CHOOSE q \in [1..Cardinality(all) -> all] :
        /\ Range(q) = all
        /\ \A i \in 1..(Len(q) - 1) : q[i].episode_number.v < q[i + 1].episode_number.v

AfterAutoCache == pc = "idle" /\ last.op = "_save_to_auto_cache"

\* C26 as stated, call by call: from no cache directory on, after every
\* call directory and file exist, the season is null and the file holds the
\* entries it held with the entry of this call put in place of the one of
\* its number, ascending; so it holds one entry for each episode number,
\* that of the last call for it.
C26_AutoCacheUpserts ==
  [][ /\ dir'
      /\ SeasonNull(file')
      /\ FileRecords(file') = Upserted(FileRecords(file), last'.arg[1]) ]_allvars

\* C26 for the calls whose save returned True; a call whose save returned
\* False leaves the file as it was.
C26_AutoCacheUpsertsWhenSaved ==
  [][ IF failedStep' = "none"
      THEN /\ dir'
           /\ SeasonNull(file')
           /\ FileRecords(file') = Upserted(FileRecords(file), last'.arg[1])
      ELSE file' = file ]_allvars

\* a call has replaced the entry of its episode in a file with two episodes
C26_Witness ==
  /\ AfterAutoCache
  /\ failedStep = "none"
  /\ last.arg[2] # << >>
  /\ last.arg[2][1].m3u8_url # last.arg[1].m3u8_url
  /\ Len(FileRecords(file)) = 2

\* a title from which the call takes no episode number
Numberless(title) ==
  \/ title = PyNone
  \/ title.v = << >>
  \/ extract_episode_number(title.v) \in { PyNone, PyInt(0) }

FirstEpisode(f) == SelectSeq(FileRecords(f), LAMBDA r : r.episode_number = PyInt(1))

\* C29 as stated: a call whose title is absent or gives no non-zero number
\* makes an entry numbered 1, and when the call before it was of that kind
\* too, for another source, the file is left with a single entry numbered
\* 1 that carries the URLs of the later call.
C29_NumberOneByDefault ==
  [][ Numberless(last'.arg[3]) =>
        /\ last'.arg[1].episode_number = 1
        /\ (/\ AfterAutoCache
            /\ Numberless(last.arg[3])
            /\ last.arg[1].episode_url # last'.arg[1].episode_url)
             => FirstEpisode(file') = << to_dict(last'.arg[1]) >> ]_allvars

\* C29 with the later call's save returning True; when it returns False the
\* file stays as the calls before left it.
C29_NumberOneByDefaultWhenSaved ==
  [][ Numberless(last'.arg[3]) =>
        /\ last'.arg[1].episode_number = 1
        /\ failedStep' = "none" => FirstEpisode(file') = << to_dict(last'.arg[1]) >>
        /\ failedStep' # "none" => file' = file ]_allvars

\* a call without a number has replaced the entry of another source that
\* had no number either
C29_Witness ==
  /\ AfterAutoCache
  /\ failedStep = "none"
  /\ last.arg[3] # PyNone /\ Numberless(last.arg[3])
  /\ last.arg[2] # << >>
  /\ Numberless(PyStr(last.arg[2][1].title))
  /\ last.arg[2][1].episode_url # last.arg[1].episode_url
  /\ FirstEpisode(file) = << to_dict(last.arg[1]) >>

\* ---------------------------------- _save_to_auto_cache over any cache file
\* files at AUTO_CACHE_PATH that load() returns False for: not JSON,
\* unreadable, a JSON array, a complete record followed by one without title
AutoForeignFiles ==
  { [kind |-> "garbage"],
    [kind |-> "unreadable"],
    JsonFile([t |-> "array"]),
    JsonFile([t |-> "object",
              m |-> [season |-> JNull,
                     episodes |-> << [episode_number |-> JNum(1), title |-> JStr(<< "T" >>),
                                      episode_url |-> JStr("Ua"), m3u8_url |-> JStr("Ma"),
                                      extracted_at |-> JStr("Xa")],
                                     [episode_number |-> JNum(2),
                                      episode_url |-> JStr("Ub"),
                                      m3u8_url |-> JStr("Mb")] >>]]) }

AutoExternalNext ==
  \/ AutoNext
  \/ \E f \in AutoForeignFiles \cup {NoFile} : External(f)

AutoExternalSpec == AutoInit /\ [][AutoExternalNext]_allvars

\* C30: a call returns without raising, and every entry the file held
\* before the call under another episode number is in the file after it,
\* field for field, also when the file could not be loaded.
C30_KeepsOtherEpisodes ==
  [][ last'.op = "_save_to_auto_cache" =>
        /\ last'.ret = "None"
        /\ \A r \in Range(FileRecords(file)) :
             r.episode_number # PyInt(last'.arg[1].episode_number)
               => r \in Range(FileRecords(file')) ]_allvars

\* the same for the calls whose load() returned True
C30_KeepsOtherEpisodesWhenLoaded ==
  [][ (last'.op = "_save_to_auto_cache" /\ load(file, PyNone, << >>, "Xnow").ret = "True") =>
        /\ last'.ret = "None"
        /\ \A r \in Range(FileRecords(file)) :
             r.episode_number # PyInt(last'.arg[1].episode_number)
               => r \in Range(FileRecords(file')) ]_allvars

\* --------------------------------------------------- TheChosenDownloaderGUI
\* sel is the window: is_downloading, the state of the download, browse and
\* select buttons, the events waiting for the Tk main loop (clicks on the
\* download button and the callbacks handed to after(0, ...)), and the
\* threads started by download_selected, each with its position and the
\* episodes it has still to go through (TRUE: the episode has a video_url).
\* The status label and the progress bar are not part of the state.
Gui(is_downloading, buttons, events, threads) ==
  [is_downloading |-> is_downloading, buttons |-> buttons, events |-> events, threads |-> threads]
Thread(pc_, todo) == [pc |-> pc_, todo |-> todo]

MaxClicks == 2
MaxThreads == 2
MaxSelected == 2

\* VideoDownloader.__init__(self, verbose=False) called with keyword arguments
VideoDownloader(kwargs) == IF kwargs \subseteq {"verbose"} THEN "ok" ELSE "TypeError"

\* one pass of the loop of _download_episodes: an episode without video_url
\* is skipped; for the others the downloader is constructed outside the
\* try, download() is called inside it
episode_step(th) ==
  IF ~Head(th.todo) THEN Thread("loop", Tail(th.todo))
  ELSE IF VideoDownloader({"verbose", "progress_callback"}) # "ok" THEN Thread("raised", th.todo)
  ELSE Thread("loop", Tail(th.todo))

GuiInit ==
  /\ CacheInit
  /\ dir = TRUE
  /\ refs = Unused
  /\ batch = Unused
  /\ sel = Gui(FALSE, "normal", << >>, << >>)
  /\ ext = Unused

\* the user clicks the download button
GuiClick ==
  /\ Len(SelectSeq(sel.events, LAMBDA e : e = "click")) < MaxClicks
  /\ sel' = [sel EXCEPT !.events = Append(@, "click")]
  /\ UNCHANGED << vars, refs, batch, ext >>

\* the main loop takes the next event: a click on an enabled button calls
\* download_selected, which starts a thread unless nothing is selected,
\* no location is given or os.makedirs raises; a callback sets the buttons
GuiMainLoop(selected, location, makedirs) ==
  /\ sel.events # << >>
  /\ Head(sel.events) = "click" => Len(sel.threads) < MaxThreads
  /\ sel' =
       IF Head(sel.events) = "click"
       THEN IF sel.buttons = "normal" /\ selected # << >> /\ location /\ makedirs
            THEN [sel EXCEPT !.events = Tail(@), !.threads = Append(@, Thread("start", selected))]
            ELSE [sel EXCEPT !.events = Tail(@)]
       ELSE [sel EXCEPT !.events = Tail(@), !.buttons = Head(sel.events)]
  /\ UNCHANGED << vars, refs, batch, ext >>

\* _download_episodes begins: set_downloading_state(True)
GuiThreadStart(t) ==
  /\ t \in DOMAIN sel.threads
  /\ sel.threads[t].pc = "start"
  /\ sel' = [sel EXCEPT !.events = Append(@, "disabled"), !.is_downloading = TRUE,
                        !.threads[t] = Thread("loop", @.todo)]
  /\ UNCHANGED << vars, refs, batch, ext >>

GuiThreadEpisode(t) ==
  /\ t \in DOMAIN sel.threads
  /\ sel.threads[t].pc = "loop"
  /\ sel.threads[t].todo # << >>
  /\ sel' = [sel EXCEPT !.threads[t] = episode_step(@)]
  /\ UNCHANGED << vars, refs, batch, ext >>

\* the loop is over: set_downloading_state(False)
GuiThreadFinish(t) ==
  /\ t \in DOMAIN sel.threads
  /\ sel.threads[t].pc = "loop"
  /\ sel.threads[t].todo = << >>
  /\ sel' = [sel EXCEPT !.events = Append(@, "normal"), !.is_downloading = FALSE,
                        !.threads[t] = Thread("done", << >>)]
  /\ UNCHANGED << vars, refs, batch, ext >>

GuiMainLoopStep ==
  \E selected \in ListsOf(BOOLEAN, MaxSelected), location \in BOOLEAN, makedirs \in BOOLEAN :
    GuiMainLoop(selected, location, makedirs)
GuiThreadStep(t) == GuiThreadStart(t) \/ GuiThreadEpisode(t) \/ GuiThreadFinish(t)

GuiNext ==
  \/ GuiClick
  \/ GuiMainLoopStep
  \/ \E t \in 1..MaxThreads : GuiThreadStart(t)
  \/ \E t \in 1..MaxThreads : GuiThreadEpisode(t)
  \/ \E t \in 1..MaxThreads : GuiThreadFinish(t)

GuiSpec == GuiInit /\ [][GuiNext]_allvars

\* the main loop keeps taking events and every started thread keeps running
GuiFairSpec ==
  /\ GuiSpec
  /\ WF_allvars(GuiMainLoopStep)
  /\ \A t \in 1..MaxThreads : WF_allvars(GuiThreadStep(t))

\* C27: every thread download_selected has started reaches
\* set_downloading_state(False), after which is_downloading is False and
\* the callback that re-enables the buttons is on its way.
C27_LeavesDownloadingState ==
  \A t \in 1..MaxThreads :
    (Len(sel.threads) >= t) ~> (Len(sel.threads) >= t /\ sel.threads[t].pc = "done")

\* the same for the threads none of whose episodes has a video_url
C27_LeavesDownloadingStateWithoutUrl ==
  \A t \in 1..MaxThreads :
    (Len(sel.threads) >= t /\ \A i \in DOMAIN sel.threads[t].todo : ~sel.threads[t].todo[i])
      ~> (Len(sel.threads) >= t /\ sel.threads[t].pc = "done")

\* C28: at no time are two threads started by download_selected unfinished.
Unfinished == { t \in DOMAIN sel.threads : sel.threads[t].pc \in {"start", "loop"} }
C28_SingleDownloadThread == Cardinality(Unfinished) <= 1

====
